---- MODULE Spec2Model ----
(***************************************************************************)
(* Model of cape.cfdx.archivist: the CaseArchivist class (archive session, *)
(* safety checker, action executors, "progress" orchestration) and the     *)
(* module-level helpers it uses.                                           *)
(*                                                                         *)
(* The model follows the control flow and the data flow of each method.    *)
(* The file system is the state the os / shutil / glob calls read and      *)
(* write: the entries of the local case folder, the entries of the case's  *)
(* archive folder, and a clock that stamps every file the code writes.     *)
(* Every method runs with the case folder as working directory.            *)
(*                                                                         *)
(* Not represented: the logger's title argument (the name of the calling   *)
(* frame), the print() calls, and Python's own binding errors on the way   *)
(* to a callee (self.logger is read before __init__ assigns it, begin      *)
(* passes an argument make_case_archivedir does not declare, match_pats    *)
(* stores the compiled pattern back into the tuple it was given, and       *)
(* archive_file calls get_archivedir, which the class does not define):    *)
(* each such call is modelled as reaching the callee's body.               *)
(***************************************************************************)
EXTENDS Integers, Sequences, FiniteSets, TLC

VARIABLES
    local,            \* local case folder: path -> [k: kind, t: mtime]
    archive,          \* case archive folder: path -> [k, t, v: version held]
    archroot,         \* the folders that exist at and under the archive root
    now,              \* clock: the mtime given to whatever is written next
    scan,             \* the order in which os.scandir lists entries (a sequence)
    _test,            \* CaseArchivist._test
    _safety,          \* CaseArchivist._safety
    _size,            \* CaseArchivist._size
    _deleted_files,   \* CaseArchivist._deleted_files
    _kept_files,      \* CaseArchivist._kept_files (read only through "in")
    _restart_files,   \* CaseArchivist._restart_files
    _report_files,    \* CaseArchivist._report_files
    opts,             \* CaseArchivist.opts (fixed at construction)
    out,              \* what the last call emitted and did, in order
    err               \* the exception the last call raised ("" if none)

vars == <<local, archive, archroot, now, scan, _test, _safety, _size, _deleted_files,
          _kept_files, _restart_files, _report_files, opts, out, err>>

---------------------------------------------------------------------------
(* Bounds of the model *)

\* the clock stops ticking here
MaxTime == 3
\* calls that add to the byte counter are cut off above this value
MaxSize == 2
\* keep counts run from -MaxKeep to MaxKeep
MaxKeep == 3
\* a raw option value holds at most MaxItems entries at each level
MaxItems == 2

---------------------------------------------------------------------------
(* Paths and patterns are strings; Chars spells each one out so that the   *)
(* matchers can walk them character by character.                          *)

\* the one element of a singleton.  Only({f(T) : T \in {e}}) computes e once and
\* hands its value to f: this is how one call follows another below.
Only(set) == CHOOSE x \in set : TRUE

Chars ==
    [s \in {"case.json", "run.01.1", "q.1", "q.2", "q.3", "d", "e", "d/x", "/o",
            "t.tar", "run.[0-9][0-9]+.[0-9]+", "q.*", "q\\.[0-9]", ".*", "[de]",
            "d/.*", "t", "a' 1='b-c", "a-b' 1='c", "(.*)-(.*)", "(q)\\.([0-9])",
            "(q)\\.[0-9]"} |->
       CASE s = "case.json" -> <<"c","a","s","e",".","j","s","o","n">>
         [] s = "run.01.1"  -> <<"r","u","n",".","0","1",".","1">>
         [] s = "q.1"       -> <<"q",".","1">>
         [] s = "q.2"       -> <<"q",".","2">>
         [] s = "q.3"       -> <<"q",".","3">>
         [] s = "d"         -> <<"d">>
         [] s = "e"         -> <<"e">>
         [] s = "d/x"       -> <<"d","/","x">>
         [] s = "/o"        -> <<"/","o">>
         [] s = "t.tar"     -> <<"t",".","t","a","r">>
         [] s = "t"         -> <<"t">>
         [] s = "run.[0-9][0-9]+.[0-9]+" ->
                <<"r","u","n",".","[","0","-","9","]","[","0","-","9","]","+",
                  ".","[","0","-","9","]","+">>
         [] s = "q.*"       -> <<"q",".","*">>
         [] s = "q\\.[0-9]" -> <<"q","\\",".","[","0","-","9","]">>
         [] s = ".*"        -> <<".","*">>
         [] s = "[de]"      -> <<"[","d","e","]">>
         [] s = "d/.*"      -> <<"d","/",".","*">>
         [] s = "a' 1='b-c" -> <<"a","'"," ","1","=","'","b","-","c">>
         [] s = "a-b' 1='c" -> <<"a","-","b","'"," ","1","=","'","c">>
         [] s = "(.*)-(.*)" -> <<"(",".","*",")","-","(",".","*",")">>
         [] s = "(q)\\.([0-9])" -> <<"(","q",")","\\",".","(","[","0","-","9","]",")">>
         [] s = "(q)\\.[0-9]" -> <<"(","q",")","\\",".","[","0","-","9","]">>]

\* every path the model's file system can hold
Names == {"case.json", "run.01.1", "q.1", "q.2", "q.3", "d", "e", "d/x", "/o", "t.tar",
          "a' 1='b-c", "a-b' 1='c"}

Digits == {"0","1","2","3","4","5","6","7","8","9"}

\* os.sep
Sep == "/"

---------------------------------------------------------------------------
(* Regular expressions: re.compile(pat).fullmatch(name) for the syntax the *)
(* patterns use: literals, "\\c", ".", "[...]" with ranges of digits, the   *)
(* postfix "+" and "*", and unquantified groups "( )".                     *)

\* index of the "]" that closes the class opened at p[i]
ClassEnd(p, i) == CHOOSE k \in (i + 1)..Len(p) :
                      p[k] = "]" /\ \A m \in (i + 1)..(k - 1) : p[m] # "]"

AtomWidth(p, i) == IF p[i] = "\\" THEN 2
                   ELSE IF p[i] = "[" THEN ClassEnd(p, i) - i + 1
                   ELSE 1

DigitVal(c) == CHOOSE v \in 0..9 : <<"0","1","2","3","4","5","6","7","8","9">>[v + 1] = c

\* c is one of the items p[lo..hi] of a character class
RECURSIVE InClass(_, _, _, _)
InClass(p, lo, hi, c) ==
    IF lo > hi THEN FALSE
    ELSE IF lo + 2 <= hi /\ p[lo + 1] = "-"
         THEN \/ /\ c \in Digits /\ p[lo] \in Digits /\ p[lo + 2] \in Digits
                 /\ DigitVal(p[lo]) <= DigitVal(c) /\ DigitVal(c) <= DigitVal(p[lo + 2])
              \/ InClass(p, lo + 3, hi, c)
         ELSE c = p[lo] \/ InClass(p, lo + 1, hi, c)

AtomMatch(p, i, c) ==
    CASE p[i] = "\\" -> c = p[i + 1]
      [] p[i] = "["  -> InClass(p, i + 1, ClassEnd(p, i) - 1, c)
      [] p[i] = "."  -> TRUE
      [] OTHER       -> c = p[i]

\* the number of the group opened at p[i]: groups count by their "("
GroupNo(p, i) == Cardinality({m \in 1..i : p[m] = "(" /\ (m = 1 \/ p[m - 1] # "\\")})

NoCaps(p) == [g \in 1..GroupNo(p, Len(p)) |-> [lo |-> 0, hi |-> 0]]

\* the longest run of s[j..] the atom at p[i] matches, as the index after it
RECURSIVE RunEnd(_, _, _, _)
RunEnd(p, i, s, k) ==
    IF k <= Len(s) /\ AtomMatch(p, i, s[k]) THEN RunEnd(p, i, s, k + 1) ELSE k

\* re's backtracking match of p[i..] against exactly s[j..]: [ok, caps], caps
\* the span [lo, hi) of every group; a quantifier takes the longest run first
RECURSIVE ReMatch(_, _, _, _, _, _)
RECURSIVE ReTry(_, _, _, _, _, _, _)
ReMatch(p, i, s, j, caps, stk) ==
    IF i > Len(p) THEN [ok |-> j > Len(s), caps |-> caps]
    ELSE IF p[i] = "("
    THEN ReMatch(p, i + 1, s, j, [caps EXCEPT ![GroupNo(p, i)].lo = j],
                 <<GroupNo(p, i)>> \o stk)
    ELSE IF p[i] = ")"
    THEN ReMatch(p, i + 1, s, j, [caps EXCEPT ![Head(stk)].hi = j], Tail(stk))
    ELSE LET w == AtomWidth(p, i)
             q == IF i + w <= Len(p) THEN p[i + w] ELSE ""
         IN  CASE q = "+" -> ReTry(p, i + w + 1, s, RunEnd(p, i, s, j), j + 1, caps, stk)
               [] q = "*" -> ReTry(p, i + w + 1, s, RunEnd(p, i, s, j), j, caps, stk)
               [] OTHER   -> IF j <= Len(s) /\ AtomMatch(p, i, s[j])
                             THEN ReMatch(p, i + w, s, j + 1, caps, stk)
                             ELSE [ok |-> FALSE, caps |-> caps]

\* the rest of the pattern after a run that ends at k, k - 1, ..., kmin
ReTry(p, i, s, k, kmin, caps, stk) ==
    IF k < kmin THEN [ok |-> FALSE, caps |-> caps]
    ELSE LET r == ReMatch(p, i, s, k, caps, stk)
         IN  IF r.ok THEN r ELSE ReTry(p, i, s, k - 1, kmin, caps, stk)

\* re.compile(p).fullmatch(s) on spelled-out strings
re_fullmatch(p, s) == ReMatch(p, 1, s, 1, NoCaps(p), <<>>)

\* the match objects of every pattern on every name, computed once
Compiled ==
    [pat \in DOMAIN Chars |->
        [name \in DOMAIN Chars |-> re_fullmatch(Chars[pat], Chars[name])]]

fullmatch(pat, name) == Compiled[pat][name].ok

\* CaseArchivist._protected_files
_protected_files == <<"case.json", "run.[0-9][0-9]+.[0-9]+">>

\* match_pats(name, pats): name full-matches one of the patterns
match_pats(name, pats) == \E j \in 1..Len(pats) : fullmatch(pats[j], name)

---------------------------------------------------------------------------
(* The file system as the os / shutil calls see it.  S is a record with    *)
(* one field per variable: the state a method has reached so far.          *)

Absent == [k |-> "none", t |-> 0]

\* os.path.isabs
isabs(p) == Chars[p][1] = Sep

\* p lies somewhere below folder d
Under(d, p) ==
    LET cd == Chars[d]
        cp == Chars[p]
    IN  /\ Len(cp) > Len(cd) + 1
        /\ SubSeq(cp, 1, Len(cd)) = cd
        /\ cp[Len(cd) + 1] = Sep

\* os.listdir(d): the entries directly in folder d
listdir(S, d) ==
    {p \in Names : /\ S.local[p].k # "none"
                   /\ Under(d, p)
                   /\ \A m \in (Len(Chars[d]) + 2)..Len(Chars[p]) : Chars[p][m] # Sep}

\* the folders of the model that hold p
Parents(p) == {d \in Names : Under(d, p)}

isfile(S, p) == S.local[p].k = "file"
isdir(S, p) == S.local[p].k = "dir"

\* os.path.getsize of one entry
StatSize(p) == 1

RECURSIVE SumSizes(_, _)
\* getsize(file_or_folder): like du
RECURSIVE getsize(_, _)
getsize(S, p) ==
    IF S.local[p].k = "none" THEN 0
    ELSE IF isfile(S, p) THEN StatSize(p)
    ELSE StatSize(p) + SumSizes(S, listdir(S, p))

SumSizes(S, ps) ==
    IF ps = {} THEN 0
    ELSE LET q == CHOOSE x \in ps : TRUE
         IN  getsize(S, q) + SumSizes(S, ps \ {q})

\* logger.log_main / logger.log_warning, and a record of each os call made
Emit(S, ch, m) == [S EXCEPT !.out = Append(@, [ch |-> ch, msg |-> m])]
log(S, m) == Emit(S, "log", m)
warn(S, m) == Emit(S, "warn", m)
Raise(S, e) == [S EXCEPT !.err = e]

\* a folder's mtime moves when an entry is added to it or removed from it
Touched(S, p, loc) ==
    [n \in Names |-> IF n \in Parents(p) /\ loc[n].k = "dir"
                        /\ \A m \in (Len(Chars[n]) + 2)..Len(Chars[p]) : Chars[p][m] # Sep
                     THEN [loc[n] EXCEPT !.t = S.now]
                     ELSE loc[n]]

\* os.remove(p)
os_remove(S, p) ==
    Emit([S EXCEPT !.local = Touched(S, p, [S.local EXCEPT ![p] = Absent])],
         "fs", <<"remove", p>>)

\* shutil.rmtree(p)
shutil_rmtree(S, p) ==
    Emit([S EXCEPT !.local =
              Touched(S, p, [n \in Names |-> IF n = p \/ Under(p, n)
                                             THEN Absent ELSE S.local[n]])],
         "fs", <<"rmtree", p>>)

\* the archive folder that must exist for adir/fname to be written
DestFolderExists(S, fname) ==
    /\ "case" \in S.archroot
    /\ \A d \in Parents(fname) : S.archive[d].k = "dir"

\* shutil.copy(fname, os.path.join(adir, fname))
shutil_copy(S, fname) ==
    IF ~DestFolderExists(S, fname) THEN Raise(S, "FileNotFoundError")
    ELSE Emit([S EXCEPT !.archive[fname] =
                   [k |-> "file", t |-> S.now, v |-> S.local[fname].t]],
              "fs", <<"copy", fname>>)

---------------------------------------------------------------------------
(* CaseArchivist: session data and safety checker *)

SAFETY_LEVELS == <<"none", "status", "report", "restart">>

\* CaseArchivist.casename, split at "/": the case's group folder and its own
caseparts == <<"grp", "case">>

\* _validate_safety_level(safety): TRUE when it raises
_validate_safety_level(safety) == \A j \in 1..Len(SAFETY_LEVELS) : SAFETY_LEVELS[j] # safety

\* the check that lets every name through
_assert_relpath_off(fname) == FALSE
\* _assert_relpath(fname): TRUE when it raises
_assert_relpath(fname) == isabs(fname)

\* self.root_dir, self.archivedir and self.casename, spelled out
root_dir == <<"/", "w">>
archivedir == <<"/", "a">>
casename == <<"g", "r", "p", "/", "c", "a", "s", "e">>

\* os.path.join(a, b) on spelled-out strings
os_path_join(a, b) ==
    IF b # <<>> /\ b[1] = Sep THEN b
    ELSE IF a = <<>> \/ a[Len(a)] = Sep THEN a \o b
    ELSE a \o <<Sep>> \o b

\* the strings abspath_local and abspath_archive return when they do not raise
LocalPath(fname) == os_path_join(root_dir, Chars[fname])
ArchivePath(fname) == os_path_join(os_path_join(archivedir, casename), Chars[fname])

\* abspath_local(fname) / abspath_archive(fname): the key of fname in S.local /
\* S.archive, or the error
abspath_local(S, fname) ==
    IF _assert_relpath(fname) THEN Raise(S, "ValueError") ELSE S

abspath_archive(S, fname) ==
    IF _assert_relpath(fname) THEN Raise(S, "ValueError") ELSE S

\* CaseArchivist._reset_slots
_reset_slots(S) ==
    [S EXCEPT !._size = 0, !._deleted_files = <<>>, !._kept_files = {},
              !._restart_files = {}, !._report_files = {},
              !._test = FALSE, !._safety = "archive"]

\* the assertion made in dry runs too
assert_archive_dry_too(S) ==
    IF "root" \notin S.archroot THEN Raise(S, "FileNotFoundError") ELSE S
\* CaseArchivist.assert_archive
assert_archive(S) ==
    IF S._test THEN S
    ELSE IF "root" \notin S.archroot THEN Raise(S, "FileNotFoundError")
    ELSE S

\* the loop of make_case_archivedir over caseparts[j..]
RECURSIVE MakeParts(_, _, _)
MakeParts(S, parts, j) ==
    IF j > Len(parts) \/ S.err # "" THEN S
    ELSE IF parts[j] \in S.archroot THEN MakeParts(S, parts, j + 1)
    ELSE LET S1 == log(S, <<"mkdir ", parts[j]>>)
             up == IF j = 1 THEN "root" ELSE parts[j - 1]
         IN  IF up \notin S1.archroot THEN Raise(S1, "FileNotFoundError")
             ELSE MakeParts(Emit([S1 EXCEPT !.archroot = @ \cup {parts[j]}],
                                 "fs", <<"mkdir", parts[j]>>),
                            parts, j + 1)

\* CaseArchivist.make_case_archivedir
make_case_archivedir(S) ==
    IF S._test THEN S
    ELSE LET parts == IF S.opts.ArchiveType = "full"
                      THEN SubSeq(caseparts, 1, Len(caseparts) - 1)
                      ELSE caseparts
         IN  MakeParts(S, parts, 1)

\* begin with level and flag stored before the level is validated
begin_store_first(S, safety, test) ==
    LET S0 == [S EXCEPT !._test = test, !._safety = safety]
    IN  IF _validate_safety_level(safety) THEN Raise(S0, "ValueError")
        ELSE LET S1 == assert_archive(S0)
                 S2 == IF S1.err # "" THEN S1 ELSE make_case_archivedir(S1)
             IN  IF S2.err # "" THEN S2
                 ELSE [S2 EXCEPT !._size = 0, !._deleted_files = <<>>]
\* CaseArchivist.begin
begin(S, safety, test) ==
    IF _validate_safety_level(safety) THEN Raise(S, "ValueError")
    ELSE LET S1 == assert_archive([S EXCEPT !._test = test, !._safety = safety])
             S2 == IF S1.err # "" THEN S1 ELSE make_case_archivedir(S1)
         IN  IF S2.err # "" THEN S2
             ELSE [S2 EXCEPT !._size = 0, !._deleted_files = <<>>]

\* the text of check_safety's warning
_genr8_msg(S, filename, submsg) ==
    <<"skipping '", filename, "'; safety=", S._safety, "; ", submsg>>

\* check_safety with the report list treated like the restart list: a warning,
\* and the path is let go
check_safety_report_warns(S, filename) ==
    IF S._safety = "none" THEN [q |-> TRUE, S |-> S]
    ELSE IF match_pats(filename, _protected_files)
    THEN [q |-> FALSE, S |-> warn(S, _genr8_msg(S, filename, "protected file"))]
    ELSE IF filename \in S._kept_files
    THEN [q |-> FALSE, S |-> warn(S, _genr8_msg(S, filename, "previously kept file"))]
    ELSE IF S._safety = "status" THEN [q |-> TRUE, S |-> S]
    ELSE IF filename \in S._report_files
    THEN [q |-> TRUE, S |-> warn(S, _genr8_msg(S, filename, "required for reports"))]
    ELSE IF S._safety = "report" THEN [q |-> TRUE, S |-> S]
    ELSE IF filename \in S._restart_files
    THEN [q |-> TRUE, S |-> warn(S, _genr8_msg(S, filename, "required for restart"))]
    ELSE [q |-> TRUE, S |-> S]

\* check_safety with the restart list refusing, as the other lists do
check_safety_restart_refuses(S, filename) ==
    IF S._safety = "none" THEN [q |-> TRUE, S |-> S]
    ELSE IF match_pats(filename, _protected_files)
    THEN [q |-> FALSE, S |-> warn(S, _genr8_msg(S, filename, "protected file"))]
    ELSE IF filename \in S._kept_files
    THEN [q |-> FALSE, S |-> warn(S, _genr8_msg(S, filename, "previously kept file"))]
    ELSE IF S._safety = "status" THEN [q |-> TRUE, S |-> S]
    ELSE IF filename \in S._report_files
    THEN [q |-> FALSE, S |-> warn(S, _genr8_msg(S, filename, "required for reports"))]
    ELSE IF S._safety = "report" THEN [q |-> TRUE, S |-> S]
    ELSE IF filename \in S._restart_files
    THEN [q |-> FALSE, S |-> warn(S, _genr8_msg(S, filename, "required for restart"))]
    ELSE [q |-> TRUE, S |-> S]

\* check_safety without the early return of level none
check_safety_none_checked(S, filename) ==
    IF match_pats(filename, _protected_files)
    THEN [q |-> FALSE, S |-> warn(S, _genr8_msg(S, filename, "protected file"))]
    ELSE IF filename \in S._kept_files
    THEN [q |-> FALSE, S |-> warn(S, _genr8_msg(S, filename, "previously kept file"))]
    ELSE IF S._safety \in {"none", "status"} THEN [q |-> TRUE, S |-> S]
    ELSE IF filename \in S._report_files
    THEN [q |-> FALSE, S |-> warn(S, _genr8_msg(S, filename, "required for reports"))]
    ELSE IF S._safety = "report" THEN [q |-> TRUE, S |-> S]
    ELSE IF filename \in S._restart_files
    THEN [q |-> TRUE, S |-> warn(S, _genr8_msg(S, filename, "required for restart"))]
    ELSE [q |-> TRUE, S |-> S]

\* check_safety with the kept list consulted at level status only
check_safety_kept_at_status(S, filename) ==
    IF S._safety = "none" THEN [q |-> TRUE, S |-> S]
    ELSE IF match_pats(filename, _protected_files)
    THEN [q |-> FALSE, S |-> warn(S, _genr8_msg(S, filename, "protected file"))]
    ELSE IF S._safety = "status" /\ filename \in S._kept_files
    THEN [q |-> FALSE, S |-> warn(S, _genr8_msg(S, filename, "previously kept file"))]
    ELSE IF S._safety = "status" THEN [q |-> TRUE, S |-> S]
    ELSE IF filename \in S._report_files
    THEN [q |-> FALSE, S |-> warn(S, _genr8_msg(S, filename, "required for reports"))]
    ELSE IF S._safety = "report" THEN [q |-> TRUE, S |-> S]
    ELSE IF filename \in S._restart_files
    THEN [q |-> TRUE, S |-> warn(S, _genr8_msg(S, filename, "required for restart"))]
    ELSE [q |-> TRUE, S |-> S]

\* CaseArchivist.check_safety: [q |-> the result, S |-> the state with the warning]
check_safety(S, filename) ==
    IF S._safety = "none" THEN [q |-> TRUE, S |-> S]
    ELSE IF match_pats(filename, _protected_files)
    THEN [q |-> FALSE, S |-> warn(S, _genr8_msg(S, filename, "protected file"))]
    ELSE IF filename \in S._kept_files
    THEN [q |-> FALSE, S |-> warn(S, _genr8_msg(S, filename, "previously kept file"))]
    ELSE IF S._safety = "status" THEN [q |-> TRUE, S |-> S]
    ELSE IF filename \in S._report_files
    THEN [q |-> FALSE, S |-> warn(S, _genr8_msg(S, filename, "required for reports"))]
    ELSE IF S._safety = "report" THEN [q |-> TRUE, S |-> S]
    ELSE IF filename \in S._restart_files
    THEN [q |-> TRUE, S |-> warn(S, _genr8_msg(S, filename, "required for restart"))]
    ELSE [q |-> TRUE, S |-> S]

---------------------------------------------------------------------------
(* CaseArchivist: executors on one path *)

\* CaseArchivist.keep_file
keep_file(S, filename) ==
    LET S1 == log(S, <<"  keep '", filename, "'">>)
    IN  [S1 EXCEPT !._kept_files = @ \cup {filename}]

\* delete_file with the size added before the path is looked at
delete_file_size_first(S, filename) ==
    LET S1 == [S EXCEPT !._size = @ + getsize(S, filename)]
    IN  IF isdir(S, filename)
        THEN warn(S1, <<"cannot rm: '", filename, "' is a folder">>)
        ELSE IF ~isfile(S, filename)
        THEN warn(S1, <<"cannot rm: '", filename, "' does not exist">>)
        ELSE LET c == check_safety(S1, filename)
             IN  IF c.q
                 THEN LET S2 == log(c.S, <<"rm '", filename, "'">>)
                      IN  IF ~S2._test THEN os_remove(S2, filename) ELSE S2
                 ELSE c.S

\* delete_file that counts the size of what it may remove only
delete_file_count_approved(S, filename) ==
    IF isdir(S, filename)
    THEN warn(S, <<"cannot rm: '", filename, "' is a folder">>)
    ELSE IF ~isfile(S, filename)
    THEN warn(S, <<"cannot rm: '", filename, "' does not exist">>)
    ELSE LET c == check_safety(S, filename)
         IN  IF c.q
             THEN LET S1 == [c.S EXCEPT !._size = @ + getsize(S, filename)]
                      S2 == log(S1, <<"rm '", filename, "'">>)
                  IN  IF ~S2._test THEN os_remove(S2, filename) ELSE S2
             ELSE c.S

\* CaseArchivist.delete_file
delete_file(S, filename) ==
    IF isdir(S, filename)
    THEN warn(S, <<"cannot rm: '", filename, "' is a folder">>)
    ELSE IF ~isfile(S, filename)
    THEN warn(S, <<"cannot rm: '", filename, "' does not exist">>)
    ELSE LET S1 == [S EXCEPT !._size = @ + getsize(S, filename)]
             c  == check_safety(S1, filename)
         IN  IF c.q
             THEN LET S2 == log(c.S, <<"rm '", filename, "'">>)
                  IN  IF ~S2._test THEN os_remove(S2, filename) ELSE S2
             ELSE c.S

\* delete_dir that removes the folder and then logs it
delete_dir_rm_first(S, filename) ==
    IF isfile(S, filename)
    THEN warn(S, <<"cannot rmdir: '", filename, "' is a file">>)
    ELSE IF ~isdir(S, filename)
    THEN warn(S, <<"cannot rmdir: '", filename, "' does not exist">>)
    ELSE LET S1 == [S EXCEPT !._size = @ + getsize(S, filename)]
             c  == check_safety(S1, filename)
         IN  IF c.q
             THEN LET S2 == IF ~c.S._test THEN shutil_rmtree(c.S, filename) ELSE c.S
                  IN  log(S2, <<"rm -r '", filename, "'">>)
             ELSE c.S
\* CaseArchivist.delete_dir
delete_dir(S, filename) ==
    IF isfile(S, filename)
    THEN warn(S, <<"cannot rmdir: '", filename, "' is a file">>)
    ELSE IF ~isdir(S, filename)
    THEN warn(S, <<"cannot rmdir: '", filename, "' does not exist">>)
    ELSE LET S1 == [S EXCEPT !._size = @ + getsize(S, filename)]
             c  == check_safety(S1, filename)
         IN  IF c.q
             THEN LET S2 == log(c.S, <<"rm -r '", filename, "'">>)
                  IN  IF ~S2._test THEN shutil_rmtree(S2, filename) ELSE S2
             ELSE c.S

\* CaseArchivist.archive_file
archive_file(S, fname) ==
    LET S0 == abspath_archive(abspath_local(S, fname), fname)
    IN  IF S0.err # "" THEN S0
        ELSE IF ~isfile(S0, fname)
        THEN warn(S0, <<"cannot cp '", fname, "'; no such file">>)
        ELSE IF S0.archive[fname].k = "file" /\ S0.archive[fname].t > S0.local[fname].t
        THEN log(S0, <<"ARCHIVE/", fname, " up-to-date">>)
        ELSE LET S1 == IF S0.archive[fname].k = "file"
                       THEN log(S0, <<"rm ARCHIVE/", fname, " (updating)">>)
                       ELSE S0
                 S2 == log(S1, <<fname, " --> ARCHIVE/", fname>>)
             IN  shutil_copy(S2, fname)

\* CaseArchivist.remove_local
remove_local(S, fname) ==
    LET S0 == abspath_local(S, fname)
    IN  IF S0.err # "" THEN S0
        ELSE IF ~isfile(S0, fname) THEN S0
        ELSE os_remove(log(S0, <<"rm '", fname, "'">>), fname)

\* CaseArchivist.rmtree_local
rmtree_local(S, fdir) ==
    LET S0 == abspath_local(S, fdir)
    IN  IF S0.err # "" THEN S0
        ELSE IF ~isdir(S0, fdir) THEN S0
        ELSE shutil_rmtree(log(S0, <<"rm -r '", fdir, "'">>), fdir)

---------------------------------------------------------------------------
(* Pattern locator: glob.glob, rematch and CaseArchivist.search.  A match  *)
(* dictionary is the sequence of its items [grp, mtchs] in insertion order.*)

\* the elements of sequence q that satisfy Keep, in q's order
RECURSIVE SelectIn(_, _)
SelectIn(q, keep) ==
    IF q = <<>> THEN <<>>
    ELSE (IF Head(q) \in keep THEN <<Head(q)>> ELSE <<>>) \o SelectIn(Tail(q), keep)

\* str.split(os.sep) on a spelled-out string
RECURSIVE Split(_)
Split(cs) ==
    IF \A m \in 1..Len(cs) : cs[m] # Sep THEN <<cs>>
    ELSE LET m == CHOOSE x \in 1..Len(cs) :
                      cs[x] = Sep /\ \A y \in 1..(x - 1) : cs[y] # Sep
         IN  <<SubSeq(cs, 1, m - 1)>> \o Split(SubSeq(cs, m + 1, Len(cs)))

\* root.count(os.sep) for the folder that holds p: 0 in the case folder itself
Depth(p) == Len(Split(Chars[p])) - 1

\* fnmatch of pattern p[i..] against s[j..]; no wildcard crosses a separator,
\* and a leading "." of a name is matched only by a "." of the pattern
RECURSIVE GlobFull(_, _, _, _)
GlobFull(p, i, s, j) ==
    LET first == j = 1 \/ s[j - 1] = Sep
    IN  IF i > Len(p) THEN j > Len(s)
        ELSE IF first /\ j <= Len(s) /\ s[j] = "." /\ p[i] # "." THEN FALSE
        ELSE IF p[i] = "*"
        THEN \/ GlobFull(p, i + 1, s, j)
             \/ j <= Len(s) /\ s[j] # Sep /\ GlobFull(p, i, s, j + 1)
        ELSE IF p[i] = "?"
        THEN j <= Len(s) /\ s[j] # Sep /\ GlobFull(p, i + 1, s, j + 1)
        ELSE IF p[i] = "[" /\ \E k \in (i + 1)..Len(p) : p[k] = "]"
        THEN /\ j <= Len(s)
             /\ InClass(p, i + 1, ClassEnd(p, i) - 1, s[j])
             /\ GlobFull(p, ClassEnd(p, i) + 1, s, j + 1)
        ELSE j <= Len(s) /\ s[j] = p[i] /\ GlobFull(p, i + 1, s, j + 1)

\* glob.glob(pat): the existing paths that match, in listing order
glob_glob(S, pat) ==
    SelectIn(S.scan, {n \in Names : S.local[n].k # "none"
                                    /\ GlobFull(Chars[pat], 1, Chars[n], 1)})

\* the entries of the case folder itself
TopLevel(S) == {n \in Names : S.local[n].k # "none" /\ ~isabs(n) /\ Depth(n) = 0}

\* str(j) for a group index
IndexStr(j) == <<"0", "1", "2", "3", "4", "5", "6", "7", "8", "9">>[j + 1]

\* _match2str(re_match): "0='v0' 1='v1' ..." (no pattern of the model names a
\* group, so groupdict() is empty and every group is labelled by its index)
RECURSIVE Match2Str(_, _, _)
Match2Str(s, caps, g) ==
    IF g > Len(caps) THEN <<>>
    ELSE (IF g > 1 THEN <<" ">> ELSE <<>>)
         \o <<IndexStr(g - 1), "=", "'">>
         \o SubSeq(s, caps[g].lo, caps[g].hi - 1) \o <<"'">>
         \o Match2Str(s, caps, g + 1)

_match2str(pat, name) ==
    Match2Str(Chars[name], Compiled[pat][name].caps, 1)

\* the last component of a path
Basename(p) == LET parts == Split(Chars[p]) IN parts[Len(parts)]

\* _refilter(names, regex): the names that full-match the sub-pattern
_refilter(names, subpat) == {n \in names : re_fullmatch(subpat, Basename(n)).ok}

\* os.walk from one folder, as rematch prunes it: the matches found at
\* depth maxdepth below the entries `here` of a folder at depth `depth`
RECURSIVE WalkDirs(_, _, _, _, _)
RECURSIVE Walk(_, _, _, _)
Walk(S, pat, here, depth) ==
    LET pats     == Split(Chars[pat])
        maxdepth == Len(pats) - 1
        dirnames  == SelectIn(S.scan, {n \in here : S.local[n].k = "dir"})
        filenames == SelectIn(S.scan, {n \in here : S.local[n].k = "file"})
    IN  IF depth = maxdepth
        THEN SelectIn(dirnames \o filenames, {n \in here : fullmatch(pat, n)})
        ELSE WalkDirs(S, pat,
                      SelectIn(dirnames, _refilter(here, pats[depth + 1])),
                      depth, 1)

WalkDirs(S, pat, dirs, depth, j) ==
    IF j > Len(dirs) THEN <<>>
    ELSE Walk(S, pat, listdir(S, dirs[j]), depth + 1)
         \o WalkDirs(S, pat, dirs, depth, j + 1)

\* matchdict[lbl].append(fullpath) for each match in turn
RECURSIVE GroupBy(_, _, _)
GroupBy(pat, found, md) ==
    IF found = <<>> THEN md
    ELSE LET lbl == _match2str(pat, Head(found))
             at  == {j \in 1..Len(md) : md[j].grp = lbl}
         IN  GroupBy(pat, Tail(found),
                     IF at = {}
                     THEN Append(md, [grp |-> lbl, mtchs |-> <<Head(found)>>])
                     ELSE LET j == CHOOSE x \in at : TRUE
                          IN  [md EXCEPT ![j].mtchs = Append(@, Head(found))])

\* rematch(pat)
rematch(S, pat) == GroupBy(pat, Walk(S, pat, TopLevel(S), 0), <<>>)

\* _safe_mtime(fname)
_safe_mtime(S, fname) == IF ~isfile(S, fname) THEN 0 ELSE S.local[fname].t

\* sorted(matches, key=_safe_mtime): stable, ascending
RECURSIVE sorted(_, _)
sorted(S, matches) ==
    IF matches = <<>> THEN <<>>
    ELSE LET rest == sorted(S, SubSeq(matches, 1, Len(matches) - 1))
             x    == matches[Len(matches)]
             n    == Cardinality({j \in 1..Len(rest) :
                                      _safe_mtime(S, rest[j]) <= _safe_mtime(S, x)})
         IN  SubSeq(rest, 1, n) \o <<x>> \o SubSeq(rest, n + 1, Len(rest))

\* CaseArchivist.search
search(S, pat) ==
    LET matchdict == IF S.opts.SearchMethod = "glob"
                     THEN <<[grp |-> <<>>, mtchs |-> glob_glob(S, pat)]>>
                     ELSE rematch(S, pat)
    IN  [j \in 1..Len(matchdict) |->
            [grp |-> matchdict[j].grp, mtchs |-> sorted(S, matchdict[j].mtchs)]]

---------------------------------------------------------------------------
(* Retention options and the executors that work on a match dictionary.    *)
(* A search option (dict of pattern -> n) is the sequence of its items     *)
(* [pat, n] in insertion order.                                            *)

Min(a, b) == IF a <= b THEN a ELSE b
Max(a, b) == IF a >= b THEN a ELSE b

\* the position a slice bound i denotes in a list of length k
SliceIdx(k, i) == IF i < 0 THEN Max(k + i, 0) ELSE Min(i, k)
\* q[:e]
SliceTo(q, e) == SubSeq(q, 1, SliceIdx(Len(q), e))
\* q[b:]
SliceFrom(q, b) == SubSeq(q, SliceIdx(Len(q), b) + 1, Len(q))

\* the update that keeps the value a key already has
RECURSIVE DictUpdate_keep_first(_, _)
DictUpdate_keep_first(d, e) ==
    IF e = <<>> THEN d
    ELSE DictUpdate_keep_first(IF \E j \in 1..Len(d) : d[j].pat = Head(e).pat
                               THEN d ELSE Append(d, Head(e)),
                               Tail(e))
\* optval.update(valj)
RECURSIVE DictUpdate(_, _)
DictUpdate(d, e) ==
    IF e = <<>> THEN d
    ELSE LET at == {j \in 1..Len(d) : d[j].pat = Head(e).pat}
         IN  DictUpdate(IF at = {} THEN Append(d, Head(e))
                        ELSE [d EXCEPT ![CHOOSE j \in at : TRUE].n = Head(e).n],
                        Tail(e))

\* the dict branch of expand_fileopt: the items whose value is an int
RECURSIVE IntItems(_)
IntItems(items) ==
    IF items = <<>> THEN <<>>
    ELSE (IF Head(items).isint THEN <<[pat |-> Head(items).pat, n |-> Head(items).n]>>
          ELSE <<>>) \o IntItems(Tail(items))

\* expand_fileopt(rawval, vdef): rawval is [tag |-> "str", pat], [tag |-> "dict",
\* items], [tag |-> "list", items] or, for any other type, [tag |-> "other"]
RECURSIVE expand_fileopt(_, _)
RECURSIVE ExpandList(_, _, _)
expand_fileopt(rawval, vdef) ==
    IF rawval.tag = "dict" THEN IntItems(rawval.items)
    ELSE IF rawval.tag = "str" THEN <<[pat |-> rawval.pat, n |-> vdef]>>
    ELSE ExpandList(rawval.items, vdef, <<>>)

ExpandList(items, vdef, optval) ==
    IF items = <<>> THEN optval
    ELSE IF Head(items).tag \notin {"dict", "str", "list"}
    THEN ExpandList(Tail(items), vdef, optval)
    ELSE ExpandList(Tail(items), vdef,
                    DictUpdate(optval, expand_fileopt(Head(items), vdef)))

\* for filename in files: self.archive_file(filename)
RECURSIVE ArchiveEach(_, _)
ArchiveEach(S, files) ==
    IF files = <<>> \/ S.err # "" THEN S
    ELSE Only({ArchiveEach(T, Tail(files)) : T \in {archive_file(S, Head(files))}})

\* the slice with mtchs[len(mtchs)-n:] for mtchs[-n:]
CopyFiles_from_end(mtchs, n) ==
    IF n < 0 THEN SliceTo(mtchs, -n) ELSE SliceFrom(mtchs, Len(mtchs) - n)
\* the files archive_files copies from one group
CopyFiles(mtchs, n) == IF n < 0 THEN SliceTo(mtchs, -n) ELSE SliceFrom(mtchs, -n)

\* CaseArchivist.archive_files
RECURSIVE archive_files(_, _, _)
archive_files(S, matchdict, n) ==
    IF matchdict = <<>> \/ S.err # "" THEN S
    ELSE LET S1 == log(S, <<"regex groups: ", Head(matchdict).grp>>)
         IN  Only({archive_files(T, Tail(matchdict), n) :
                      T \in {ArchiveEach(S1, CopyFiles(Head(matchdict).mtchs, n))}})

\* the split delete_files and delete_dirs make of one group
\* the split with mtchs[:n] for mtchs[:-n]
RmFiles_first(mtchs, n) == IF n = 0 THEN mtchs ELSE SliceTo(mtchs, n)
\* the split with a negative count taken as its magnitude
RmFiles_abs(mtchs, n) ==
    IF n = 0 THEN mtchs ELSE SliceTo(mtchs, IF n < 0 THEN n ELSE -n)
RmFiles(mtchs, n) == IF n = 0 THEN mtchs ELSE SliceTo(mtchs, -n)
\* the kept part with a negative count taken as its magnitude
KeepFiles_magnitude(mtchs, n) ==
    IF n = 0 THEN <<>> ELSE SliceFrom(mtchs, IF n < 0 THEN n ELSE -n)
KeepFiles(mtchs, n) == IF n = 0 THEN <<>> ELSE SliceFrom(mtchs, -n)

RECURSIVE DeleteFileEach(_, _)
DeleteFileEach(S, files) ==
    IF files = <<>> \/ S.err # "" THEN S
    ELSE Only({DeleteFileEach(T, Tail(files)) : T \in {delete_file(S, Head(files))}})

RECURSIVE DeleteDirEach(_, _)
DeleteDirEach(S, files) ==
    IF files = <<>> \/ S.err # "" THEN S
    ELSE Only({DeleteDirEach(T, Tail(files)) : T \in {delete_dir(S, Head(files))}})

RECURSIVE KeepEach(_, _)
KeepEach(S, files) ==
    IF files = <<>> \/ S.err # "" THEN S
    ELSE Only({KeepEach(T, Tail(files)) : T \in {keep_file(S, Head(files))}})

\* CaseArchivist.delete_files
RECURSIVE delete_files(_, _, _)
delete_files(S, matchdict, n) ==
    IF matchdict = <<>> \/ S.err # "" THEN S
    ELSE LET S1 == log(S, <<"regex groups: ", Head(matchdict).grp>>)
         IN  Only({delete_files(KeepEach(T, KeepFiles(Head(matchdict).mtchs, n)),
                                Tail(matchdict), n) :
                      T \in {DeleteFileEach(S1, RmFiles(Head(matchdict).mtchs, n))}})

\* CaseArchivist.delete_dirs
RECURSIVE delete_dirs(_, _, _)
delete_dirs(S, matchdict, n) ==
    IF matchdict = <<>> \/ S.err # "" THEN S
    ELSE LET S1 == log(S, <<"regex groups: ", Head(matchdict).grp>>)
         IN  Only({delete_dirs(KeepEach(T, KeepFiles(Head(matchdict).mtchs, n)),
                               Tail(matchdict), n) :
                      T \in {DeleteDirEach(S1, RmFiles(Head(matchdict).mtchs, n))}})

\* the inner loop of find_keepfiles over the groups of one search
RECURSIVE KeepOfGroups(_, _)
KeepOfGroups(matchdict, n) ==
    IF matchdict = <<>> THEN <<>>
    ELSE (IF n < 0 THEN Head(matchdict).mtchs ELSE SliceFrom(Head(matchdict).mtchs, -n))
         \o KeepOfGroups(Tail(matchdict), n)

\* CaseArchivist.find_keepfiles
RECURSIVE find_keepfiles(_, _)
find_keepfiles(S, searchopt) ==
    IF searchopt = <<>> THEN <<>>
    ELSE (IF Head(searchopt).n = 0 THEN <<>>
          ELSE KeepOfGroups(search(S, Head(searchopt).pat), Head(searchopt).n))
         \o find_keepfiles(S, Tail(searchopt))

Range(q) == {q[j] : j \in 1..Len(q)}

\* CaseArchivist.save_reportfiles
save_reportfiles(S, searchopt) ==
    LET S1 == log(S, <<"Saving list of files needed for reports">>)
    IN  [S1 EXCEPT !._report_files = Range(find_keepfiles(S1, searchopt))]

\* CaseArchivist.save_restartfiles
save_restartfiles(S, searchopt) ==
    LET S1 == log(S, <<"Saving list of files needed to restart case">>)
    IN  [S1 EXCEPT !._restart_files = Range(find_keepfiles(S1, searchopt))]

\* the inner loop of _search_targroups over the groups of one search
RECURSIVE TarOfGroups(_, _)
TarOfGroups(matchdict, n) ==
    IF matchdict = <<>> THEN <<>>
    ELSE CopyFiles(Head(matchdict).mtchs, n) \o TarOfGroups(Tail(matchdict), n)

\* CaseArchivist._search_targroups
RECURSIVE _search_targroups(_, _)
_search_targroups(S, searchopt) ==
    IF searchopt = <<>> THEN <<>>
    ELSE TarOfGroups(search(S, Head(searchopt).pat), Head(searchopt).n)
         \o _search_targroups(S, Tail(searchopt))

\* _getmtime(file_or_folder): the latest mtime in a tree, 0 if there is none
RECURSIVE MaxMtime(_, _)
RECURSIVE _getmtime(_, _)
_getmtime(S, p) ==
    IF S.local[p].k = "none" THEN 0
    ELSE IF isfile(S, p) THEN S.local[p].t
    ELSE Max(S.local[p].t, MaxMtime(S, listdir(S, p)))

MaxMtime(S, ps) ==
    IF ps = {} THEN 0
    ELSE LET q == CHOOSE x \in ps : TRUE
         IN  Max(_getmtime(S, q), MaxMtime(S, ps \ {q}))

\* the latest mtime with a folder counted by its own mtime only
getmtime_flat(S, filenames) ==
    Max(0, Only({t \in {0} \cup {S.local[p].t : p \in Range(filenames)} :
                    \A p \in Range(filenames) : S.local[p].t <= t}))
\* getmtime(*filenames)
getmtime(S, filenames) == MaxMtime(S, Range(filenames))

\* tarname + self.opts.get_ArchiveExtension()
TarFile(tarname) == CHOOSE f \in Names : Chars[f] = Chars[tarname] \o <<".", "t", "a", "r">>

\* the keys of a search option
RECURSIVE Keys(_)
Keys(searchopt) ==
    IF searchopt = <<>> THEN <<>> ELSE <<Head(searchopt).pat>> \o Keys(Tail(searchopt))

\* for filename in filelist: self.log(f"  add '{filename}' => {dest}{ftar}")
RECURSIVE LogAdds(_, _, _, _)
LogAdds(S, filelist, dest, ftar) ==
    IF filelist = <<>> THEN S
    ELSE LogAdds(log(S, <<"  add '", Head(filelist), "' => ", dest, ftar>>),
                 Tail(filelist), dest, ftar)

\* CaseArchivist._tar on a bundle of the archive: the tar command writes it,
\* and fails when the folder it should write in is missing
TarToArchive(S, ftar, filelist) ==
    IF "case" \notin S.archroot THEN Raise(S, "SystemError")
    ELSE Emit([S EXCEPT !.archive[ftar] = [k |-> "file", t |-> S.now, v |-> S.now]],
              "fs", <<"tar", ftar, filelist>>)

\* CaseArchivist._tar on a bundle of the case folder
TarToLocal(S, ftar, filelist) ==
    Emit([S EXCEPT !.local[ftar] = [k |-> "file", t |-> S.now]],
         "fs", <<"tar", ftar, filelist>>)

\* CaseArchivist.tar_archive
tar_archive(S, tarname, searchopt) ==
    LET filelist == _search_targroups(S, searchopt)
        ftar     == TarFile(tarname)
        S0       == abspath_archive(S, ftar)
    IN  IF S0.err # "" THEN S0
        ELSE IF S0.archive[ftar].k = "file" /\ S0.archive[ftar].t >= getmtime(S0, filelist)
        THEN log(S0, <<"ARCHIVE/", ftar, " up-to-date">>)
        ELSE LET S1 == log(S0, <<"tar ARCHIVE/", ftar, " ", Keys(searchopt)>>)
                 S2 == LogAdds(S1, filelist, "ARCHIVE/", ftar)
             IN  IF ~S2._test THEN TarToArchive(S2, ftar, filelist) ELSE S2

\* CaseArchivist.tar_local
tar_local(S, tarname, searchopt) ==
    LET filelist == _search_targroups(S, searchopt)
        ftar     == TarFile(tarname)
        S0       == abspath_local(S, ftar)
    IN  IF S0.err # "" THEN S0
        ELSE IF isfile(S0, ftar) /\ S0.local[ftar].t >= getmtime(S0, filelist)
        THEN log(S0, <<ftar, " up-to-date">>)
        ELSE LET S1 == log(S0, <<"tar ", ftar, " ", Keys(searchopt)>>)
                 S2 == LogAdds(S1, filelist, "", ftar)
             IN  IF ~S2._test THEN TarToLocal(S2, ftar, filelist) ELSE S2

---------------------------------------------------------------------------
(* Phase orchestration: the "progress" action *)

\* the loop of _progress_copy_files over the items of the search option
RECURSIVE CopyLoop(_, _)
CopyLoop(S, searchopt) ==
    IF searchopt = <<>> \/ S.err # "" THEN S
    ELSE Only({CopyLoop(T, Tail(searchopt)) :
                  T \in {archive_files(S, search(S, Head(searchopt).pat),
                                       Head(searchopt).n)}})

\* CaseArchivist._progress_copy_files
_progress_copy_files(S) ==
    LET searchopt == expand_fileopt(S.opts.ProgressArchiveFiles, 0)
    IN  CopyLoop(log(S, <<"begin *ProgressArchiveFiles*">>), searchopt)

\* the loop of _progress_tar_files over the tar groups [tarname, searchopt]
RECURSIVE TarLoop(_, _)
TarLoop(S, taropt) ==
    IF taropt = <<>> \/ S.err # "" THEN S
    ELSE Only({TarLoop(T, Tail(taropt)) :
                  T \in {tar_archive(S, Head(taropt).tarname, Head(taropt).searchopt)}})

\* CaseArchivist._progress_tar_files
_progress_tar_files(S) ==
    TarLoop(log(S, <<"begin *ProgressTarGroups*">>), S.opts.ProgressTarGroups)

RECURSIVE DeleteFilesLoop(_, _)
DeleteFilesLoop(S, searchopt) ==
    IF searchopt = <<>> \/ S.err # "" THEN S
    ELSE Only({DeleteFilesLoop(T, Tail(searchopt)) :
                  T \in {delete_files(S, search(S, Head(searchopt).pat),
                                      Head(searchopt).n)}})

\* CaseArchivist._progress_delete_files
_progress_delete_files(S) ==
    LET searchopt == expand_fileopt(S.opts.ProgressDeleteFiles, 0)
    IN  DeleteFilesLoop(log(S, <<"begin *ProgressDeleteFiles*">>), searchopt)

RECURSIVE DeleteDirsLoop(_, _)
DeleteDirsLoop(S, searchopt) ==
    IF searchopt = <<>> \/ S.err # "" THEN S
    ELSE Only({DeleteDirsLoop(T, Tail(searchopt)) :
                  T \in {delete_dirs(S, search(S, Head(searchopt).pat),
                                     Head(searchopt).n)}})

\* CaseArchivist._progress_delete_dirs
_progress_delete_dirs(S) ==
    LET searchopt == expand_fileopt(S.opts.ProgressDeleteDirs, 0)
    IN  DeleteDirsLoop(log(S, <<"begin *ProgressDeleteDirs*">>), searchopt)

\* the phases with the files deleted before the tar groups are built
Phases_delete_early(S) ==
    Only({IF S3.err # "" THEN S3 ELSE _progress_delete_dirs(S3) :
          S3 \in {IF S2.err # "" THEN S2 ELSE _progress_tar_files(S2) :
                  S2 \in {IF S1.err # "" THEN S1 ELSE _progress_delete_files(S1) :
                          S1 \in {_progress_copy_files(log(S, <<"run *Progress*">>))}}}})
\* the phases of run_progress after begin, each skipped once one has raised
Phases(S) ==
    Only({IF S3.err # "" THEN S3 ELSE _progress_delete_dirs(S3) :
          S3 \in {IF S2.err # "" THEN S2 ELSE _progress_delete_files(S2) :
                  S2 \in {IF S1.err # "" THEN S1 ELSE _progress_tar_files(S1) :
                          S1 \in {_progress_copy_files(log(S, <<"run *Progress*">>))}}}})

\* CaseArchivist.run_progress
run_progress(S, test) ==
    Only({IF S0.err # "" THEN S0 ELSE Phases(S0) : S0 \in {begin(S, "restart", test)}})

---------------------------------------------------------------------------
(* State machine: one action per public call.  Each call starts from the   *)
(* current state with nothing emitted and no exception pending, and runs   *)
(* to its end.                                                             *)

Cur ==
    [local |-> local, archive |-> archive, archroot |-> archroot, now |-> now,
     scan |-> scan,
     _test |-> _test, _safety |-> _safety, _size |-> _size,
     _deleted_files |-> _deleted_files, _kept_files |-> _kept_files,
     _restart_files |-> _restart_files, _report_files |-> _report_files,
     opts |-> opts, out |-> <<>>, err |-> ""]

\* a call has left state S
Set(T) ==
    \E S \in {T} :
    /\ local' = S.local
    /\ archive' = S.archive
    /\ archroot' = S.archroot
    /\ now' = S.now
    /\ scan' = S.scan
    /\ _test' = S._test
    /\ _safety' = S._safety
    /\ _size' = S._size
    /\ _deleted_files' = S._deleted_files
    /\ _kept_files' = S._kept_files
    /\ _restart_files' = S._restart_files
    /\ _report_files' = S._report_files
    /\ opts' = S.opts
    /\ out' = S.out
    /\ err' = S.err

\* CaseArchivist(opts): a new archivist on the same case folder
New == Set(_reset_slots(Cur))

Begin(safety, test) == Set(begin(Cur, safety, test))

KeepFile(p) == Set(keep_file(Cur, p))

DeleteFile(p) ==
    /\ _size + getsize(Cur, p) <= MaxSize
    /\ Set(delete_file(Cur, p))

DeleteDir(p) ==
    /\ _size + getsize(Cur, p) <= MaxSize
    /\ Set(delete_dir(Cur, p))

ArchiveFile(p) == Set(archive_file(Cur, p))

RemoveLocal(p) == Set(remove_local(Cur, p))

RmtreeLocal(p) == Set(rmtree_local(Cur, p))

SaveReportfiles(searchopt) == Set(save_reportfiles(Cur, searchopt))

SaveRestartfiles(searchopt) == Set(save_restartfiles(Cur, searchopt))

TarArchive(tarname, searchopt) ==
    Set(tar_archive(Cur, tarname, searchopt))

TarLocal(tarname, searchopt) ==
    Set(tar_local(Cur, tarname, searchopt))

\* a.archive_files(a.search(pat), n)
ArchiveFiles(pat, n) ==
    Set(archive_files(Cur, search(Cur, pat), n))

\* a.delete_files(a.search(pat), n)
DeleteFiles(pat, n) ==
    LET S == delete_files(Cur, search(Cur, pat), n)
    IN  S._size <= MaxSize /\ Set(S)

\* a.delete_dirs(a.search(pat), n)
DeleteDirs(pat, n) ==
    LET S == delete_dirs(Cur, search(Cur, pat), n)
    IN  S._size <= MaxSize /\ Set(S)

\* time passes
Tick ==
    /\ now < MaxTime
    /\ now' = now + 1
    /\ out' = <<>>
    /\ err' = ""
    /\ UNCHANGED <<local, archive, archroot, scan, _test, _safety, _size,
                   _deleted_files, _kept_files, _restart_files, _report_files, opts>>

---------------------------------------------------------------------------
(* Initial states *)

\* the session right after CaseArchivist.__init__
FreshSession ==
    /\ _test = FALSE
    /\ _safety = "archive"
    /\ _size = 0
    /\ _deleted_files = <<>>
    /\ _kept_files = {}
    /\ _restart_files = {}
    /\ _report_files = {}
    /\ out = <<>>
    /\ err = ""

\* a case folder holding the files `files` and the folders `dirs`, with mtimes mt
Folder(files, dirs, mt) ==
    [n \in Names |-> IF n \in files THEN [k |-> "file", t |-> mt[n]]
                     ELSE IF n \in dirs THEN [k |-> "dir", t |-> mt[n]]
                     ELSE Absent]

NoArchive == [n \in Names |-> [k |-> "none", t |-> 0, v |-> 0]]

NoOption == [tag |-> "list", items |-> <<>>]

\* options with nothing for run_progress to do
PlainOpts(method) ==
    [SearchMethod |-> method, ArchiveType |-> "sub",
     ProgressArchiveFiles |-> NoOption, ProgressTarGroups |-> <<>>,
     ProgressDeleteFiles |-> NoOption, ProgressDeleteDirs |-> NoOption]

\* one listing order of the folder entries
ScanByName == <<"/o", "a' 1='b-c", "a-b' 1='c", "case.json", "d", "d/x", "e", "q.1", "q.2",
                "q.3", "run.01.1", "t.tar">>

\* another one
ScanBackwards == [j \in 1..Len(ScanByName) |-> ScanByName[Len(ScanByName) + 1 - j]]

---------------------------------------------------------------------------
(* Specification of the safety checker: a session in which the caller sets *)
(* the level, fills the kept and protected lists, and deletes.             *)

SafetyArgs == {"none", "status", "report", "restart", "archive"}

InitSafety ==
    /\ FreshSession
    /\ local = Folder({"case.json", "q.1", "q.2", "d/x"}, {"d"},
                      [n \in Names |-> IF n = "q.2" THEN 2 ELSE 1])
    /\ archive = NoArchive
    /\ archroot = {"root", "grp", "case"}
    /\ now = 2
    /\ scan = ScanByName
    /\ opts = PlainOpts("regex")

NextSafety ==
    \/ New
    \/ \E safety \in SafetyArgs : Begin(safety, FALSE)
    \/ \E p \in {"q.1", "d/x"} : KeepFile(p)
    \/ \E n \in {0, 1} : SaveReportfiles(<<[pat |-> "q.*", n |-> n]>>)
    \/ \E n \in {0, -1} : SaveRestartfiles(<<[pat |-> "q.*", n |-> n]>>)
    \/ \E p \in {"case.json", "q.1", "q.2", "d/x"} : DeleteFile(p)
    \/ DeleteDir("d")

SpecSafety == InitSafety /\ [][NextSafety]_vars

---------------------------------------------------------------------------
(* delete_files and delete_dirs on the result of a search, for every count *)

InitRetain ==
    /\ FreshSession
    /\ \E t \in 1..2 :
          local = Folder({"case.json", "q.1", "q.2", "q.3", "d/x"}, {"d", "e"},
                         [n \in Names |-> IF n \in {"q.3", "e"} THEN 2
                                          ELSE IF n = "q.2" THEN t ELSE 1])
    /\ archive = NoArchive
    /\ archroot = {"root", "grp", "case"}
    /\ now = 2
    /\ scan \in {ScanByName, ScanBackwards}
    /\ opts \in {PlainOpts("glob"), PlainOpts("regex")}

NextRetain ==
    \/ \E safety \in {"none", "status"} : Begin(safety, FALSE)
    \/ Begin("status", TRUE)
    \/ \E n \in (-MaxKeep)..MaxKeep : DeleteFiles("q.*", n)
    \/ \E n \in (-MaxKeep)..MaxKeep : DeleteDirs("[de]", n)

SpecRetain == InitRetain /\ [][NextRetain]_vars

---------------------------------------------------------------------------
(* archive_files, tar_archive and tar_local on the result of a search *)

\* ProgressTarGroups-like search option: n of the q files, and both folders
TarGroup(n) == <<[pat |-> "q.*", n |-> n], [pat |-> "[de]", n |-> 0]>>

InitSelect ==
    /\ FreshSession
    /\ \E newest \in {{}, {"q.3"}} :
          local = Folder({"case.json", "q.1", "q.2", "d/x"} \cup newest, {"d", "e"},
                         [n \in Names |-> IF n \in {"q.3", "e"} THEN 2 ELSE 1])
    /\ archive = NoArchive
    /\ archroot = {"root", "grp", "case"}
    /\ now = 3
    /\ scan = ScanByName
    /\ opts \in {PlainOpts("glob"), PlainOpts("regex")}

NextSelect ==
    \/ \E test \in BOOLEAN : Begin("none", test)
    \/ \E n \in (-MaxKeep)..MaxKeep : ArchiveFiles("q.*", n)
    \/ \E n \in (-MaxKeep)..MaxKeep : TarArchive("t", TarGroup(n))
    \/ \E n \in (-MaxKeep)..MaxKeep : TarLocal("t", TarGroup(n))

SpecSelect == InitSelect /\ [][NextSelect]_vars

---------------------------------------------------------------------------
(* tar_archive and tar_local with bundles of several ages already in place, *)
(* older than, as old as and newer than the files and folders they hold     *)

\* a file written at time t whose content is older than any in the folder
OldCopy(t) == [k |-> "file", t |-> t, v |-> 0]

InitTar ==
    /\ FreshSession
    /\ \E tx \in {1, 3}, tl \in 0..3 :
          local = [Folder({"case.json", "q.1", "q.2", "q.3", "d/x"}, {"d", "e"},
                          [n \in Names |-> IF n \in {"q.3", "e"} THEN 2
                                           ELSE IF n = "d/x" THEN tx ELSE 1])
                   EXCEPT !["t.tar"] = IF tl = 0 THEN Absent
                                       ELSE [k |-> "file", t |-> tl]]
    /\ \E tb \in 0..3 :
          archive = [NoArchive EXCEPT !["t.tar"] = IF tb = 0 THEN @ ELSE OldCopy(tb)]
    /\ archroot = {"root", "grp", "case"}
    /\ now = 3
    /\ scan = ScanByName
    /\ opts = PlainOpts("glob")

NextTar ==
    \/ \E test \in BOOLEAN : Begin("none", test)
    \/ \E n \in (-MaxKeep)..MaxKeep : TarArchive("t", TarGroup(n))
    \/ \E n \in (-MaxKeep)..MaxKeep : TarLocal("t", TarGroup(n))

SpecTar == InitTar /\ [][NextTar]_vars

---------------------------------------------------------------------------
(* The executors called one by one, in real and in dry-run sessions *)

QFiles == <<[pat |-> "q.*", n |-> 0]>>

InitExec ==
    /\ FreshSession
    /\ local = Folder({"case.json", "q.1", "d/x"}, {"d"}, [n \in Names |-> 1])
    /\ archive = NoArchive
    /\ archroot = {"root", "grp", "case"}
    /\ now = 2
    /\ scan = ScanByName
    /\ opts = PlainOpts("glob")

NextExec ==
    \/ \E safety \in {"none", "status"}, test \in BOOLEAN : Begin(safety, test)
    \/ KeepFile("q.1")
    \/ \E p \in {"q.1", "d/x"} : ArchiveFile(p)
    \/ \E p \in {"case.json", "q.1"} : DeleteFile(p)
    \/ DeleteDir("d")
    \/ TarArchive("t", QFiles)
    \/ TarLocal("t", QFiles)
    \/ \E p \in {"case.json", "q.1"} : RemoveLocal(p)
    \/ RmtreeLocal("d")
    \/ Tick

SpecExec == InitExec /\ [][NextExec]_vars

---------------------------------------------------------------------------
(* run_progress under a few retention configurations *)

RunProgress(test) == Set(run_progress(Cur, test))

Dict(items) == [tag |-> "dict", items |-> items]

Item(pat, n) == [pat |-> pat, n |-> n, isint |-> TRUE]

RunOpts(method, copy, tar, delfiles, deldirs) ==
    [SearchMethod |-> method, ArchiveType |-> "sub",
     ProgressArchiveFiles |-> copy, ProgressTarGroups |-> tar,
     ProgressDeleteFiles |-> delfiles, ProgressDeleteDirs |-> deldirs]

\* copy every q file, keep the newest one
KeepNewest ==
    RunOpts("glob", [tag |-> "str", pat |-> "q.*"], <<>>,
            Dict(<<Item("q.*", 1)>>), NoOption)

\* two delete patterns that match the same files
Overlap ==
    RunOpts("regex", NoOption, <<>>,
            Dict(<<Item("q.*", 1), Item("q\\.[0-9]", 0)>>), NoOption)

\* negative counts: the oldest file is copied, the oldest file is deleted
Oldest ==
    RunOpts("regex", Dict(<<Item("q.*", -1)>>), <<>>,
            Dict(<<Item("q.*", -1)>>), NoOption)

\* nothing copied, the oldest file deleted
DropOldest ==
    RunOpts("glob", NoOption, <<>>, Dict(<<Item("q.*", -1)>>), NoOption)

\* a tar group of the q files, and the folders d and e deleted
TarAndDirs ==
    RunOpts("regex", NoOption,
            <<[tarname |-> "t", searchopt |-> <<[pat |-> "q.*", n |-> 0]>>]>>,
            NoOption, [tag |-> "str", pat |-> "[de]"])

\* every phase with something to do: the q files copied and bundled, all but
\* the newest deleted, the folders d and e deleted
AllPhases ==
    RunOpts("glob", [tag |-> "str", pat |-> "q.*"],
            <<[tarname |-> "t", searchopt |-> <<[pat |-> "q.*", n |-> 0]>>]>>,
            Dict(<<Item("q.*", 1)>>), [tag |-> "str", pat |-> "[de]"])

InitRun ==
    /\ FreshSession
    /\ \E t \in 1..2 :
          local = Folder({"case.json", "q.1", "q.2", "q.3", "d/x"}, {"d", "e"},
                         [n \in Names |-> IF n = "q.3" THEN 2
                                          ELSE IF n = "q.2" THEN t ELSE 1])
    /\ archive = NoArchive
    /\ archroot = {"root", "grp", "case"}
    /\ now = 2
    /\ scan \in {ScanByName, ScanBackwards}
    /\ opts \in {KeepNewest, Overlap, Oldest, DropOldest, TarAndDirs, AllPhases}

NextRun ==
    \/ \E test \in BOOLEAN : RunProgress(test)
    \/ New
    \/ Tick

SpecRun == InitRun /\ [][NextRun]_vars

\* sessions begun, and runs made, with none, part or all of the archive's
\* folders in place
InitBegin ==
    /\ FreshSession
    /\ local = Folder({"case.json", "q.1", "q.2", "q.3", "d/x"}, {"d", "e"},
                      [n \in Names |-> IF n = "q.3" THEN 2 ELSE 1])
    /\ archive = NoArchive
    /\ archroot \in {{}, {"root"}, {"root", "grp"}, {"root", "grp", "case"}}
    /\ now = 2
    /\ scan = ScanByName
    /\ opts \in {KeepNewest, AllPhases}

NextBegin ==
    \/ \E safety \in SafetyArgs, test \in BOOLEAN : Begin(safety, test)
    \/ \E test \in BOOLEAN : RunProgress(test)
    \/ KeepFile("q.2")
    \/ DeleteFile("q.1")
    \/ New

SpecBegin == InitBegin /\ [][NextBegin]_vars

\* the executors called with one path each: a file and a folder of the case,
\* a name that is nothing, and an absolute path to a file outside the case
PathArgs == {"/o", "q.1", "d", "run.01.1"}

InitPaths ==
    /\ FreshSession
    /\ local = Folder({"case.json", "q.1", "d/x", "/o"}, {"d"}, [n \in Names |-> 1])
    /\ archive = NoArchive
    /\ archroot = {"root", "grp", "case"}
    /\ now = 2
    /\ scan = ScanByName
    /\ opts = PlainOpts("regex")

NextPaths ==
    \/ \E safety \in {"none", "status"}, test \in BOOLEAN : Begin(safety, test)
    \/ \E p \in PathArgs : DeleteFile(p)
    \/ \E p \in PathArgs : DeleteDir(p)
    \/ \E p \in PathArgs : ArchiveFile(p)
    \/ \E p \in PathArgs : RemoveLocal(p)
    \/ \E p \in PathArgs : RmtreeLocal(p)
    \/ KeepFile("q.1")
    \/ DeleteFiles(".*", 0)
    \/ DeleteDirs(".*", 0)
    \/ ArchiveFiles(".*", 0)

SpecPaths == InitPaths /\ [][NextPaths]_vars

\* expand_fileopt on raw option values: a pattern, a dict of up to MaxItems
\* patterns whose values are counts or something else, or a list of up to
\* MaxItems of these, of one-pattern lists and of values of another type
RawPats == {"q.*", "[de]"}

RawStrs == {[tag |-> "str", pat |-> p] : p \in RawPats}

RawItems ==
    {Item(p, n) : p \in RawPats, n \in -1..1}
    \cup {[pat |-> p, n |-> 0, isint |-> FALSE] : p \in RawPats}

RawDicts ==
    {Dict(items) : items \in
        {q \in UNION {[1..m -> RawItems] : m \in 0..MaxItems} :
            \A i, j \in 1..Len(q) : i # j => q[i].pat # q[j].pat}}

RawLists ==
    LET elems == RawStrs \cup RawDicts \cup {[tag |-> "other"]}
                 \cup {[tag |-> "list", items |-> <<e>>] : e \in RawStrs}
    IN  {[tag |-> "list", items |-> q] :
            q \in UNION {[1..m -> elems] : m \in 0..MaxItems}}

\* patdict = expand_fileopt(rawval, vdef) on the ProgressDeleteFiles option
ExpandFileopt(vdef) ==
    /\ out' = <<[ch |-> "ret",
                 msg |-> <<"expand_fileopt", vdef,
                           expand_fileopt(opts.ProgressDeleteFiles, vdef)>>]>>
    /\ err' = ""
    /\ UNCHANGED <<local, archive, archroot, now, scan, _test, _safety, _size,
                   _deleted_files, _kept_files, _restart_files, _report_files, opts>>

InitExpand ==
    /\ FreshSession
    /\ local = Folder({"case.json"}, {}, [n \in Names |-> 1])
    /\ archive = NoArchive
    /\ archroot = {"root", "grp", "case"}
    /\ now = 2
    /\ scan = ScanByName
    /\ \E raw \in RawStrs \cup RawDicts \cup RawLists :
          opts = RunOpts("glob", NoOption, <<>>, raw, NoOption)

NextExpand == \E vdef \in 0..1 : ExpandFileopt(vdef)

SpecExpand == InitExpand /\ [][NextExpand]_vars

---------------------------------------------------------------------------
(* search by regular expressions with groups, on names with quotes in them *)

\* re_match.groups(): the captured values, in group order
groups(pat, name) ==
    LET caps == Compiled[pat][name].caps
    IN  [g \in 1..Len(caps) |-> SubSeq(Chars[name], caps[g].lo, caps[g].hi - 1)]

GroupPats == {"(.*)-(.*)", "(q)\\.([0-9])", "(q)\\.[0-9]", "q.*"}

InitGroups ==
    /\ FreshSession
    /\ \E quoted \in SUBSET {"a' 1='b-c", "a-b' 1='c"}, t \in 1..2 :
          local = Folder({"case.json", "q.1", "q.2", "q.3"} \cup quoted, {},
                         [n \in Names |-> IF n = "q.2" THEN t ELSE 1])
    /\ archive = NoArchive
    /\ archroot = {"root", "grp", "case"}
    /\ now = 2
    /\ scan \in {ScanByName, ScanBackwards}
    /\ opts = PlainOpts("regex")

NextGroups ==
    \/ \E test \in BOOLEAN : Begin("none", test)
    \/ \E pat \in GroupPats : DeleteFiles(pat, 1)
    \/ ArchiveFiles("(.*)-(.*)", 0)

SpecGroups == InitGroups /\ [][NextGroups]_vars

\* the same runs under the configurations that copy nothing
InitDryRun ==
    /\ InitRun
    /\ opts \in {Overlap, DropOldest, TarAndDirs}

SpecDryRun == InitDryRun /\ [][NextRun]_vars

---------------------------------------------------------------------------
(* What the last call emitted *)

\* check_safety warned that it skips p for the reason `why`
Skipped(p, why) ==
    \E j \in 1..Len(out) : /\ out[j].ch = "warn"
                           /\ out[j].msg[1] = "skipping '"
                           /\ out[j].msg[2] = p
                           /\ out[j].msg[6] = why

\* the last call made the os call `call` on p
Did(call, p) ==
    \E j \in 1..Len(out) : /\ out[j].ch = "fs"
                           /\ out[j].msg[1] = call
                           /\ out[j].msg[2] = p

\* the current session at safety level L
AtLevel(L) == [Cur EXCEPT !._safety = L]

---------------------------------------------------------------------------
(* Claims on the safety checker, under SpecSafety *)

C5_CheckSafetyBlocks ==
    \A p \in Names :
        (/\ _safety \in {"status", "report", "restart"}
         /\ (match_pats(p, _protected_files) \/ p \in _kept_files))
        => ~check_safety(Cur, p).q

C8_NoneAllowsAll ==
    _safety = "none"
    => \A p \in Names : LET c == check_safety(Cur, p)
                         IN  c.q /\ c.S.out = <<>>

\* C8 witness: at level none, with paths kept, a protected file was removed
\* without a warning.
C8_Witness ==
    /\ _safety = "none"
    /\ _kept_files # {}
    /\ Did("remove", "case.json")
    /\ \A j \in 1..Len(out) : out[j].ch # "warn"

C10_KeptBlocked ==
    \A p \in _kept_files : _safety # "none" => ~check_safety(Cur, p).q

---------------------------------------------------------------------------
(* Claims on the executors, under SpecExec *)

C2_RemovalsApproved ==
    [][\A p \in Names :
          (local[p].k # "none" /\ local'[p].k = "none")
          => check_safety(Cur, p).q]_vars

---------------------------------------------------------------------------
(* Claims on run_progress, under SpecRun *)

\* the main-log and warning-log messages among the events of a call
Logs(events) == SelectSeq(events, LAMBDA e : e.ch \in {"log", "warn"})

\* the last call was a run_progress that got past begin
RanProgress(events) ==
    \E j \in 1..Len(events) : events[j] = [ch |-> "log", msg |-> <<"run *Progress*">>]

\* the os calls of a call that copy, tar or remove
Mutations(events) ==
    SelectSeq(events, LAMBDA e : e.ch = "fs" /\ e.msg[1] \in {"copy", "tar", "remove", "rmtree"})

---------------------------------------------------------------------------
(* Claims on the retention window of the delete actions, under SpecRetain *)

\* an event that ends one delete_file or delete_dir call: the removal logged,
\* or the warning that refuses it
IsAttempt(e) ==
    \/ e.ch = "log" /\ e.msg[1] \in {"rm '", "rm -r '"}
    \/ e.ch = "warn" /\ e.msg[1] \in {"cannot rm: '", "cannot rmdir: '"}
    \/ e.ch = "warn" /\ e.msg[1] = "skipping '" /\ e.msg[6] # "required for restart"

IsKeep(e) == e.ch = "log" /\ e.msg[1] = "  keep '"

PathsOf(events) == [j \in 1..Len(events) |-> events[j].msg[2]]

\* the paths a call tried to delete, and the paths it recorded as kept, in order
Attempted(events) == PathsOf(SelectSeq(events, IsAttempt))
Kept(events) == PathsOf(SelectSeq(events, IsKeep))

\* the first m, and all but the first m, entries of every group of a search
RECURSIVE FirstOfEach(_, _)
FirstOfEach(matchdict, m) ==
    IF matchdict = <<>> THEN <<>>
    ELSE LET M == Head(matchdict).mtchs
         IN  SubSeq(M, 1, Min(m, Len(M))) \o FirstOfEach(Tail(matchdict), m)

RECURSIVE RestOfEach(_, _)
RestOfEach(matchdict, m) ==
    IF matchdict = <<>> THEN <<>>
    ELSE LET M == Head(matchdict).mtchs
         IN  SubSeq(M, Min(m, Len(M)) + 1, Len(M)) \o RestOfEach(Tail(matchdict), m)

\* all but the last m, and the last m, entries of every group of a search
RECURSIVE AllButLastOfEach(_, _)
AllButLastOfEach(matchdict, m) ==
    IF matchdict = <<>> THEN <<>>
    ELSE LET M == Head(matchdict).mtchs
         IN  SubSeq(M, 1, Len(M) - Min(m, Len(M))) \o AllButLastOfEach(Tail(matchdict), m)

RECURSIVE LastOfEach(_, _)
LastOfEach(matchdict, m) ==
    IF matchdict = <<>> THEN <<>>
    ELSE LET M == Head(matchdict).mtchs
         IN  SubSeq(M, Len(M) - Min(m, Len(M)) + 1, Len(M)) \o LastOfEach(Tail(matchdict), m)

---------------------------------------------------------------------------
(* Claims on archive_files, archive_file and the tar actions, under SpecSelect *)

\* an event that ends one archive_file call: the refusal, the up-to-date
\* message or the copy message
IsCopyCall(e) ==
    \/ e.ch = "warn" /\ e.msg[1] = "cannot cp '"
    \/ e.ch = "log" /\ e.msg[1] = "ARCHIVE/"
    \/ e.ch = "log" /\ Len(e.msg) = 3 /\ e.msg[2] = " --> ARCHIVE/"

\* the files archive_file was called with, in order
CopyCalls(events) ==
    LET calls == SelectSeq(events, IsCopyCall)
    IN  [j \in 1..Len(calls) |->
            IF calls[j].msg[1] \in {"cannot cp '", "ARCHIVE/"}
            THEN calls[j].msg[2] ELSE calls[j].msg[1]]

\* the file lists handed to the tar command by a call
TarLists(events) ==
    LET tars == SelectSeq(events, LAMBDA e : e.ch = "fs" /\ e.msg[1] = "tar")
    IN  [j \in 1..Len(tars) |-> tars[j].msg[3]]

\* select(M, n) on every group: all for n = 0, the last min(n,k) for n > 0,
\* the first min(|n|,k) for n < 0
Selected(matchdict, n) ==
    IF n = 0 THEN RestOfEach(matchdict, 0)
    ELSE IF n > 0 THEN LastOfEach(matchdict, n)
    ELSE FirstOfEach(matchdict, -n)

NewestIn(members) ==
    LET ts == {0} \cup {local[x].t : x \in {y \in Names :
                           /\ local[y].k # "none"
                           /\ \E m \in Range(members) : y = m \/ Under(m, y)}}
    IN  CHOOSE t \in ts : \A u \in ts : u <= t

\* C15: tar_archive and tar_local invoke the tar command exactly when the
\* session is not a dry run and the bundle is missing or older than the latest
\* mtime among the selected members, folders taken with all they hold; when
\* the bundle exists and is at least that new, the call logs up-to-date and
\* does nothing else.
C15_TarWhenStale ==
    [][\A n \in (-MaxKeep)..MaxKeep :
          LET newest == NewestIn(_search_targroups(Cur, TarGroup(n)))
          IN  /\ TarArchive("t", TarGroup(n))
                 => LET fresh == /\ archive["t.tar"].k = "file"
                                 /\ archive["t.tar"].t >= newest
                    IN  /\ Len(TarLists(out')) = (IF ~_test /\ ~fresh THEN 1 ELSE 0)
                        /\ fresh => /\ out' = <<[ch |-> "log",
                                                 msg |-> <<"ARCHIVE/", "t.tar", " up-to-date">>]>>
                                    /\ UNCHANGED <<local, archive, archroot>>
              /\ TarLocal("t", TarGroup(n))
                 => LET fresh == /\ local["t.tar"].k = "file"
                                 /\ local["t.tar"].t >= newest
                    IN  /\ Len(TarLists(out')) = (IF ~_test /\ ~fresh THEN 1 ELSE 0)
                        /\ fresh => /\ out' = <<[ch |-> "log",
                                                 msg |-> <<"t.tar", " up-to-date">>]>>
                                    /\ UNCHANGED <<local, archive, archroot>>]_vars

\* C15 witness: a bundle of the archive exactly as new as the newest of its
\* members, a file inside a folder, was found up to date
C15_Witness ==
    /\ out = <<[ch |-> "log", msg |-> <<"ARCHIVE/", "t.tar", " up-to-date">>]>>
    /\ ~_test
    /\ archive["t.tar"] = OldCopy(3)
    /\ local["d/x"].t = 3 /\ local["d"].t < 3
    /\ \A f \in {"q.1", "q.2", "q.3", "e"} : local[f].t < 3

---------------------------------------------------------------------------
(* Claims on the order of run_progress, under SpecRun *)

\* the phase an event of a run belongs to: 1 copy, 2 tar, 3 a delete_file
\* call, 4 a delete_dir call, 0 if the event does not tell
PhaseOf(e) ==
    IF e.ch = "fs"
    THEN (IF e.msg[1] = "copy" THEN 1 ELSE IF e.msg[1] = "tar" THEN 2
          ELSE IF e.msg[1] = "remove" THEN 3 ELSE IF e.msg[1] = "rmtree" THEN 4 ELSE 0)
    ELSE IF IsCopyCall(e) /\ (Len(e.msg) = 3 => e.msg[2] # "t.tar") THEN 1
    ELSE IF e.msg[1] \in {"tar ARCHIVE/", "  add '"} THEN 2
    ELSE IF e.msg[1] = "ARCHIVE/" /\ e.msg[2] = "t.tar" THEN 2
    ELSE IF e.msg[1] \in {"rm '", "cannot rm: '"} THEN 3
    ELSE IF e.msg[1] \in {"rm -r '", "cannot rmdir: '"} THEN 4
    ELSE 0

\* the event is part of a delete_file or delete_dir call
IsDelete(e) == PhaseOf(e) \in {3, 4} \/ (e.ch = "warn" /\ e.msg[1] = "skipping '")

FirstAt(events, set) ==
    IF \E j \in 1..Len(events) : events[j] \in set
    THEN CHOOSE j \in 1..Len(events) :
            events[j] \in set /\ \A m \in 1..(j - 1) : events[m] \notin set
    ELSE 0

---------------------------------------------------------------------------
(* Claims on begin *)

\* C18 (as claimed): begin(level, dryRun) with a valid safety level and an
\* existing archive root completes without error and leaves the session with
\* that level and flag, the byte counter at 0 and empty deleted and kept
\* lists, whatever an earlier session left.
C18_BeginResets ==
    [][\A safety \in Range(SAFETY_LEVELS), test \in BOOLEAN :
          Begin(safety, test) /\ "root" \in archroot
          => /\ err' = ""
             /\ _safety' = safety /\ _test' = test
             /\ _size' = 0
             /\ _deleted_files' = <<>>
             /\ _kept_files' = {}]_vars

---------------------------------------------------------------------------
(* Claims on the executors called with one path, under SpecPaths *)

\* C21 (as claimed): archive_file, delete_file, delete_dir, remove_local and
\* rmtree_local given an absolute path raise an error and change nothing in
\* the file system; no path outside the case folder is deleted or copied.
C21_AbsoluteRejected ==
    [][\A p \in {q \in PathArgs : isabs(q)} :
          \/ DeleteFile(p) \/ DeleteDir(p) \/ ArchiveFile(p)
          \/ RemoveLocal(p) \/ RmtreeLocal(p)
          => /\ err' # ""
             /\ UNCHANGED <<local, archive, archroot>>]_vars

\* C22: abspath_local and abspath_archive raise for every absolute path; for
\* every relative path they raise nothing, return the path joined under the
\* case folder, or under the archive root and the case name, and leave the
\* session as it was.
C22_PathResolvers ==
    \A p \in Names :
       LET L == abspath_local(Cur, p)
           A == abspath_archive(Cur, p)
       IN  IF Chars[p][1] = "/"
           THEN /\ L.err = "ValueError" /\ A.err = "ValueError"
                /\ [L EXCEPT !.err = ""] = Cur /\ [A EXCEPT !.err = ""] = Cur
           ELSE /\ L = Cur /\ A = Cur
                /\ LocalPath(p) = <<"/", "w", "/">> \o Chars[p]
                /\ ArchivePath(p)
                     = <<"/", "a", "/", "g", "r", "p", "/", "c", "a", "s", "e", "/">> \o Chars[p]

\* C22 witness: archive_file or remove_local was called with an absolute path
\* to a file, was stopped by the path resolver, and the file is still there
C22_Witness ==
    /\ err = "ValueError"
    /\ out = <<>>
    /\ local["/o"].k = "file"
    /\ _size > 0

\* the call emitted this one warning and nothing else, raised nothing, and
\* left folder, archive, byte counter and kept list as they were
OnlyWarned(m) ==
    /\ out' = <<[ch |-> "warn", msg |-> m]>>
    /\ err' = ""
    /\ UNCHANGED <<local, archive, archroot, _size, _kept_files>>

---------------------------------------------------------------------------
(* Claim on expand_fileopt, under SpecExpand *)

\* a mapping with the entries of g put over those of f
Over(f, g) ==
    [p \in DOMAIN f \cup DOMAIN g |-> IF p \in DOMAIN g THEN g[p] ELSE f[p]]

\* the reference: dict -> its integer entries; string -> {s: default};
\* sequence -> the normalizations of its elements, later over earlier
RECURSIVE Normalized(_, _)
Normalized(raw, default) ==
    IF raw.tag = "dict"
    THEN LET ints == {j \in 1..Len(raw.items) : raw.items[j].isint}
         IN  [p \in {raw.items[j].pat : j \in ints} |->
                 raw.items[CHOOSE j \in ints : raw.items[j].pat = p].n]
    ELSE IF raw.tag = "str" THEN [p \in {raw.pat} |-> default]
    ELSE IF raw.tag # "list" \/ raw.items = <<>> THEN [p \in {} |-> 0]
    ELSE Over(Normalized([raw EXCEPT !.items = SubSeq(@, 1, Len(@) - 1)], default),
              Normalized(raw.items[Len(raw.items)], default))

\* a dict given by its items, as a mapping
AsMapping(items) ==
    [p \in {items[j].pat : j \in 1..Len(items)} |->
        items[CHOOSE j \in 1..Len(items) : items[j].pat = p].n]

\* C24: expand_fileopt equals the reference: of a mapping exactly its integer
\* entries, of a string s the mapping {s: default}, of a sequence the merge
\* of its elements' normalizations in order, a later count put over an
\* earlier one for the same pattern; the input is left as it was.
C24_ExpandIsNormalize ==
    [][\A vdef \in 0..1 :
          ExpandFileopt(vdef)
          => LET patdict == out'[1].msg[3]
             IN  /\ \A i, j \in 1..Len(patdict) : i # j => patdict[i].pat # patdict[j].pat
                 /\ AsMapping(patdict) = Normalized(opts.ProgressDeleteFiles, vdef)
                 /\ opts' = opts]_vars

\* C24 witness: of a list of a dict, with a count and with a value that is no
\* count, and a string that names the dict's pattern again, the result is the
\* string's pattern with the default
C24_Witness ==
    /\ opts.ProgressDeleteFiles
         = [tag |-> "list",
            items |-> <<Dict(<<Item("q.*", 1), [pat |-> "[de]", n |-> 0, isint |-> FALSE]>>),
                        [tag |-> "str", pat |-> "q.*"]>>]
    /\ out = <<[ch |-> "ret",
                msg |-> <<"expand_fileopt", 0, <<[pat |-> "q.*", n |-> 0]>>>>]>>

---------------------------------------------------------------------------
(* Claims on search, under SpecRetain *)

\* C25 (as claimed): in every group search returns, files or folders, the
\* paths are in non-decreasing order of modification time.
C25_GroupsByMtime ==
    \A pat \in {"q.*", "[de]"} :
       LET matchdict == search(Cur, pat)
       IN  \A g \in 1..Len(matchdict) :
              \A i, j \in 1..Len(matchdict[g].mtchs) :
                 i < j => local[matchdict[g].mtchs[i]].t <= local[matchdict[g].mtchs[j]].t

\* C26 (as claimed): search on a pattern that no path matches returns the
\* empty mapping, with no group key at all, in glob and in regex mode.
C26_NoMatchNoGroup ==
    \A pat \in {"q.*", "run.[0-9][0-9]+.[0-9]+"} :
       LET matchdict == search(Cur, pat)
       IN  (\A g \in 1..Len(matchdict) : matchdict[g].mtchs = <<>>) => matchdict = <<>>

---------------------------------------------------------------------------
(* Claims on the groups of a regex search, under SpecGroups *)

\* the paths search returns for a pattern, with the group each is in
Grouped(matchdict) ==
    UNION {{[grp |-> g, at |-> i, path |-> matchdict[g].mtchs[i]] :
               i \in 1..Len(matchdict[g].mtchs)} : g \in 1..Len(matchdict)}

\* C27 (as claimed): in regex mode every matched path is in exactly one
\* group, two matched paths share a group exactly when all their captured
\* values are equal, and a pattern without groups gives the single empty label.
C27_GroupsByValues ==
    \A pat \in GroupPats :
       LET matchdict == search(Cur, pat)
           matched   == {n \in TopLevel(Cur) : fullmatch(pat, n)}
       IN  /\ \A n \in matched : Cardinality({e \in Grouped(matchdict) : e.path = n}) = 1
           /\ \A e \in Grouped(matchdict) : e.path \in matched
           /\ \A e, f \in Grouped(matchdict) :
                 e.grp = f.grp <=> groups(pat, e.path) = groups(pat, f.path)
           /\ pat = "q.*" => \A g \in 1..Len(matchdict) : matchdict[g].grp = <<>>

---------------------------------------------------------------------------
(* Claims on the executors' log and byte counter, under SpecPaths *)

\* the main-log message that describes an os call
LogOf(call) ==
    IF call[1] = "remove" THEN <<"rm '", call[2], "'">>
    ELSE IF call[1] = "rmtree" THEN <<"rm -r '", call[2], "'">>
    ELSE <<call[2], " --> ARCHIVE/", call[2]>>

\* C28: every os.remove, shutil.rmtree and shutil.copy that a call makes
\* comes right after the main-log message that describes it, in the same
\* call; and a call that changes the case folder or the archive has made
\* such an os call.
C28_LoggedBeforeDone ==
    /\ [](\A j \in 1..Len(out) :
            (out[j].ch = "fs" /\ out[j].msg[1] \in {"remove", "rmtree", "copy"})
            => /\ j > 1
               /\ out[j - 1] = [ch |-> "log", msg |-> LogOf(out[j].msg)])
    /\ [][(local' # local \/ archive' # archive)
          => \E j \in 2..Len(out') :
                /\ out'[j].ch = "fs" /\ out'[j].msg[1] \in {"remove", "rmtree", "copy"}
                /\ out'[j - 1] = [ch |-> "log", msg |-> LogOf(out'[j].msg)]]_vars

\* C28 witness: a live delete_dir logged "rm -r 'd'" and then removed d
C28_Witness ==
    /\ ~_test /\ local["d"].k = "none"
    /\ out = <<[ch |-> "log", msg |-> <<"rm -r '", "d", "'">>],
               [ch |-> "fs", msg |-> <<"rmtree", "d">>]>>

\* C29: within a session (from one begin to the next) the byte counter never
\* goes down; delete_file on a file and delete_dir on a folder add the size of
\* the path, whether the safety check then denies the removal or not and
\* under dry-run as in a live run; on any other path they, and keep_file,
\* archive_file, remove_local, rmtree_local and archive_files on any path,
\* leave the counter as it was.
C29_SizeCounter ==
    [][/\ _size' >= _size \/ \E safety \in {"none", "status"}, test \in BOOLEAN :
                                Begin(safety, test)
       /\ \A p \in PathArgs :
             /\ DeleteFile(p)
                => _size' = _size + (IF local[p].k = "file" THEN getsize(Cur, p) ELSE 0)
             /\ DeleteDir(p)
                => _size' = _size + (IF local[p].k = "dir" THEN getsize(Cur, p) ELSE 0)
             /\ (ArchiveFile(p) \/ RemoveLocal(p) \/ RmtreeLocal(p)) => _size' = _size
       /\ (KeepFile("q.1") \/ ArchiveFiles(".*", 0)) => _size' = _size]_vars

\* C29 witness: under dry-run, delete_file on the kept file q.1 was denied
\* twice, and the counter holds the size of q.1 twice
C29_Witness ==
    /\ _test /\ "q.1" \in _kept_files /\ local["q.1"].k = "file"
    /\ Len(out) = 1 /\ out[1].ch = "warn" /\ out[1].msg[1] = "skipping '"
    /\ _size = 2 * getsize(Cur, "q.1") /\ _size > 0

---------------------------------------------------------------------------
(* Claim on the split delete_files and delete_dirs make, under SpecSplit:  *)
(* the calls of SpecRetain in regex mode on one listing order              *)

InitSplit ==
    /\ FreshSession
    /\ \E t \in 1..2 :
          local = Folder({"case.json", "q.1", "q.2", "q.3", "d/x"}, {"d", "e"},
                         [n \in Names |-> IF n \in {"q.3", "e"} THEN 2
                                          ELSE IF n = "q.2" THEN t ELSE 1])
    /\ archive = NoArchive
    /\ archroot = {"root", "grp", "case"}
    /\ now = 2
    /\ scan = ScanBackwards
    /\ opts = PlainOpts("regex")

NextSplit ==
    \/ \E safety \in {"none", "status"} : Begin(safety, FALSE)
    \/ Begin("status", TRUE)
    \/ \E n \in (-MaxKeep)..MaxKeep : DeleteFiles("q.*", n)
    \/ \E n \in (-MaxKeep)..MaxKeep : DeleteDirs("[de]", n)

SpecSplit == InitSplit /\ [][NextSplit]_vars

\* where the "regex groups: " lines are, and the events after the g-th of
\* them up to the next
GroupMarks(events) ==
    {j \in 1..Len(events) : events[j].ch = "log" /\ events[j].msg[1] = "regex groups: "}

EventsOfGroup(events, g) ==
    LET marks == GroupMarks(events)
        from  == CHOOSE j \in marks : Cardinality({i \in marks : i <= j}) = g
        later == {j \in marks : j > from}
        upto  == IF later = {} THEN Len(events)
                 ELSE (CHOOSE j \in later : \A i \in later : j <= i) - 1
    IN  SubSeq(events, from + 1, upto)

\* a call on matchdict gave every path of every group to the delete executor
\* or to keep_file, none to both, and in each group deleted before it kept
SplitsEachGroup(events, matchdict) ==
    /\ Cardinality(GroupMarks(events)) = Len(matchdict)
    /\ \A g \in 1..Len(matchdict) :
          LET seg == EventsOfGroup(events, g)
          IN  /\ Attempted(seg) \o Kept(seg) = matchdict[g].mtchs
              /\ Range(Attempted(seg)) \cap Range(Kept(seg)) = {}
              /\ \A i, j \in 1..Len(seg) : IsAttempt(seg[i]) /\ IsKeep(seg[j]) => i < j

====
